---- MODULE Spec2Model ----
(***************************************************************************)
(* Model of src/app.py, the Oxford Economics sales email tool: the feed    *)
(* fetcher (fetch_recent_news), the parsing of the relevance filter's      *)
(* reply, the enrichment loop, and the outreach ledger with its sidebar    *)
(* statistics, driven by Streamlit script runs of several sessions.        *)
(*                                                                         *)
(* Strings the code takes apart (the filter reply, its rows) are sequences *)
(* of one-character strings; instants are seconds.                         *)
(***************************************************************************)
EXTENDS Integers, Sequences, FiniteSets, TLC

VARIABLES
    parseInput,     \* SpecParse: the text held in st.session_state.filtered_news
    parsePos,       \* SpecParse: enumerate index i of the display loop (line 163)
    parseItems,     \* SpecParse: the (title, link, pubDate) triples unpacked so far
    parseStatus,    \* SpecParse: "run" | "done" | "raised"
    feeds,          \* SpecFetch: what feedparser.parse(url).entries yields, per feed
    now,            \* SpecFetch: datetime.datetime.now(timezone.utc), read once (line 102)
    fetchStatus,    \* SpecFetch: "input" | "done"
    fetchOut,       \* SpecFetch: the locals of fetch_recent_news when it returns
    session_state,  \* per session: authenticated, username, raw_news, filtered_news
    outreach,       \* the rows of table outreach in outreach.db, in insertion order
    clock,          \* the wall clock, in seconds (CURRENT_TIMESTAMP, datetime.now)
    pc,             \* per session: where its script run stands, "idle" between runs
    clicked,        \* per session, per run: the widget whose click started the run
    loop_i,         \* per session, per run: the enumerate index i of the display loop
    calls,          \* per session, per run: the completion-service calls made
    sidebar,        \* per session, per run: the statistics put in the sidebar
    error,          \* per session, per run: the exception raised, or "none"
    wrote,          \* per session, per run: the handler that ran its statement, or "none"
    rendered,       \* per session: the buttons on the page (drawn by the latest run)
    lastOp,         \* history: the last statement executed on outreach
    lastCycle,      \* history, per session: how its last Fetch & Analyze ended
    filteredFrom,   \* history, per session: the news list filtered_news was made from
    opened,         \* the sessions that have a page open
    runsLeft        \* script runs the sessions may still start

parseVars == <<parseInput, parsePos, parseItems, parseStatus>>
fetchVars == <<feeds, now, fetchStatus, fetchOut>>
appVars == <<session_state, outreach, clock, pc, clicked, loop_i, calls, sidebar,
            error, wrote, rendered, lastOp, lastCycle, filteredFrom, opened, runsLeft>>
vars == <<parseVars, fetchVars, appVars>>

----------------------------------------------------------------------------
(* Bounds of the model. *)

\* longest relevance-filter reply enumerated by SpecParse, in characters
MaxLen == 5

\* number of freely chosen entries in the feeds enumerated by SpecFetch
MaxEntries == 3

\* script runs started, over all sessions
MaxRuns == 5

\* script runs started when a single session is open
MaxSoloRuns == 6

\* script runs started when the sessions begin logged in, with a page of items
MaxLedgerRuns == 2

\* rows of table outreach
MaxRows == 3

\* seconds the clock advances
MaxClock == 1

----------------------------------------------------------------------------
(* Python string operations used by the script. *)

NL == "\n"
PIPE == "|"
Whitespace == {" ", NL}
Alphabet == {"a", " ", PIPE, NL}

\* x in seq
Contains(seq, x) == \E k \in 1..Len(seq) : seq[k] = x

\* index of the first occurrence of x in seq, 0 when there is none
RECURSIVE IndexFrom(_, _, _)
IndexFrom(seq, x, k) ==
    IF k > Len(seq) THEN 0
    ELSE IF seq[k] = x THEN k
    ELSE IndexFrom(seq, x, k + 1)

\* str.split(sep, maxsplit): maxsplit = -1 splits at every separator
RECURSIVE Split(_, _, _)
Split(seq, sep, maxsplit) ==
    LET k == IndexFrom(seq, sep, 1)
    IN  IF maxsplit = 0 \/ k = 0 THEN <<seq>>
        ELSE <<SubSeq(seq, 1, k - 1)>>
             \o Split(SubSeq(seq, k + 1, Len(seq)), sep, maxsplit - 1)

\* str.strip(): leading and trailing whitespace removed
RECURSIVE Strip(_)
Strip(seq) ==
    IF seq = <<>> THEN seq
    ELSE IF seq[1] \in Whitespace THEN Strip(Tail(seq))
    ELSE IF seq[Len(seq)] \in Whitespace THEN Strip(SubSeq(seq, 1, Len(seq) - 1))
    ELSE seq

\* lst[:n]
Take(lst, n) == SubSeq(lst, 1, IF Len(lst) < n THEN Len(lst) ELSE n)


----------------------------------------------------------------------------
(* Parsing of the relevance filter's reply: the head of the display loop. *)

\* maxsplit of row.split("|", 3)
MaxSplit == 3

\* number of targets of the unpacking  title, link, pubDate = ...
UnpackArity == 3

\* [p.strip() for p in row.split("|",3)][:3]
RowFields(row) ==
    LET parts == Split(row, PIPE, MaxSplit)
    IN  Take([k \in 1..Len(parts) |-> Strip(parts[k])], UnpackArity)

NoItem == [title |-> <<>>, link |-> <<>>, pubDate |-> <<>>]

\* one row through lines 164-166: skipped, a ValueError of the unpacking, or an item
ParseRow(row) ==
    IF ~Contains(row, PIPE)
    THEN [kind |-> "skip", item |-> NoItem]
    ELSE LET f == RowFields(row)
         IN  IF Len(f) # UnpackArity
             THEN [kind |-> "raise", item |-> NoItem]
             ELSE [kind |-> "item",
                   item |-> [title |-> f[1], link |-> f[2], pubDate |-> f[3]]]

\* st.session_state.filtered_news.split("\n")
Rows(text) == Split(text, NL, -1)

----------------------------------------------------------------------------
(* fetch_recent_news: recency filter, link deduplication and the size cap. *)

\* the list feeds holds six URLs (lines 94-101)
NumFeeds == 6

\* len(entries) >= 20 (line 120)
EntryCap == 20

\* datetime.timedelta(days=7), in seconds
one_week == 7 * 24 * 3600

\* The published field of a feed entry.  kind: "missing" (e.get returns ""),
\* "bad" (not an RFC 2822 date), "naive" (a date with zone -0000, parsed without
\* tzinfo) or "aware" (a date with a zone offset); wall is the wall-clock
\* reading in seconds and off the zone's offset from UTC in seconds.
Published(kind, wall, off) == [kind |-> kind, wall |-> wall, off |-> off]

\* lines 107-110: parsedate_to_datetime raises on a missing or malformed date;
\* a naive result is taken as UTC, an aware one is converted to UTC
ParseDate(published) ==
    IF published.kind \in {"missing", "bad"}
    THEN [raised |-> TRUE, utc |-> 0]
    ELSE IF published.kind = "naive"
    THEN [raised |-> FALSE, utc |-> published.wall]
    ELSE [raised |-> FALSE, utc |-> published.wall - published.off]

\* line 119: f"{title} | {link} | {published}", kept as its three parts
FormatEntry(e) == [title |-> e.title, link |-> e.link, published |-> e.published]

\* line 103: entries, seen = [], set(); examined and origin record the feed
\* positions (feed, index) the loops looked at and those they appended,
\* brk the break of line 121, raised an exception leaving the function
FetchStart ==
    [entries |-> <<>>, seen |-> {}, examined |-> <<>>, origin |-> <<>>,
     brk |-> FALSE, raised |-> FALSE]

\* ExamineEntry with the link test of lines 116-117 left out
ExamineEntryNoDedup(st, e, f, i, one_week_ago) ==
    LET looked == [st EXCEPT !.examined = Append(@, <<f, i>>)]
        pub_dt == ParseDate(e.published)
    IN  IF pub_dt.raised THEN looked
        ELSE IF pub_dt.utc < one_week_ago THEN looked
        ELSE LET added == [looked EXCEPT !.seen = @ \cup {e.link},
                                         !.entries = Append(@, FormatEntry(e)),
                                         !.origin = Append(@, <<f, i>>)]
             IN  [added EXCEPT !.brk = Len(added.entries) >= EntryCap]

\* ExamineEntry with an except clause that misses the error of a missing date
ExamineEntryNarrowExcept(st, e, f, i, one_week_ago) ==
    LET looked == [st EXCEPT !.examined = Append(@, <<f, i>>)]
        pub_dt == ParseDate(e.published)
    IN  IF e.published.kind = "missing" THEN [looked EXCEPT !.raised = TRUE]
        ELSE IF pub_dt.raised THEN looked
        ELSE IF pub_dt.utc < one_week_ago THEN looked
        ELSE IF e.link \in st.seen THEN looked
        ELSE LET added == [looked EXCEPT !.seen = @ \cup {e.link},
                                         !.entries = Append(@, FormatEntry(e)),
                                         !.origin = Append(@, <<f, i>>)]
             IN  [added EXCEPT !.brk = Len(added.entries) >= EntryCap]

\* ExamineEntry with the link test and seen.add moved before the date checks
ExamineEntrySeenFirst(st, e, f, i, one_week_ago) ==
    LET looked == [st EXCEPT !.examined = Append(@, <<f, i>>)]
        marked == [looked EXCEPT !.seen = @ \cup {e.link}]
        pub_dt == ParseDate(e.published)
    IN  IF e.link \in st.seen THEN looked
        ELSE IF pub_dt.raised THEN marked
        ELSE IF pub_dt.utc < one_week_ago THEN marked
        ELSE LET added == [marked EXCEPT !.entries = Append(@, FormatEntry(e)),
                                         !.origin = Append(@, <<f, i>>)]
             IN  [added EXCEPT !.brk = Len(added.entries) >= EntryCap]

\* lines 106-121: the body of the inner loop for entry e, at position i of feed f
ExamineEntry(st, e, f, i, one_week_ago) ==
    LET looked == [st EXCEPT !.examined = Append(@, <<f, i>>)]
        pub_dt == ParseDate(e.published)
    IN  IF pub_dt.raised THEN looked                 \* except: continue
        ELSE IF pub_dt.utc < one_week_ago THEN looked
        ELSE IF e.link \in st.seen THEN looked
        ELSE LET added == [looked EXCEPT !.seen = @ \cup {e.link},
                                         !.entries = Append(@, FormatEntry(e)),
                                         !.origin = Append(@, <<f, i>>)]
             IN  [added EXCEPT !.brk = Len(added.entries) >= EntryCap]

\* line 105: for e in feedparser.parse(url).entries, left by the break
RECURSIVE EntryLoop(_, _, _, _, _)
EntryLoop(st, es, f, i, one_week_ago) ==
    IF i > Len(es) \/ st.brk \/ st.raised THEN st
    ELSE EntryLoop(ExamineEntry(st, es[i], f, i, one_week_ago), es, f, i + 1, one_week_ago)

\* line 104: for url in feeds; the break of line 121 leaves the inner loop only
RECURSIVE FeedLoop(_, _, _, _)
FeedLoop(st, fs, f, one_week_ago) ==
    IF f > Len(fs) \/ st.raised THEN st
    ELSE FeedLoop(EntryLoop([st EXCEPT !.brk = FALSE], fs[f], f, 1, one_week_ago),
                  fs, f + 1, one_week_ago)

\* fetch_recent_news with the feeds' contents and the clock reading as inputs
FetchTrace(fs, t) == FeedLoop(FetchStart, fs, 1, t - one_week)

FetchRecentNews(fs, t) == FetchTrace(fs, t).entries

----------------------------------------------------------------------------
(* Feed contents: what feedparser.parse(url).entries may yield. *)

\* a zone offset of two hours, in seconds
TwoHours == 2 * 3600

Entry(link, published) == [title |-> "t", link |-> link, published |-> published]

\* the freely placed entries: two links, every kind of date around the cutoff
Samples(t) ==
    LET cutoff == t - one_week
    IN  { Entry(1, Published("missing", 0, 0)),
          Entry(2, Published("bad", 0, 0)),
          \* wall clock after the cutoff, instant before it
          Entry(1, Published("aware", cutoff + 1, TwoHours)),
          \* exactly at the cutoff
          Entry(1, Published("naive", cutoff, 0)),
          \* wall clock before the cutoff, instant after it
          Entry(2, Published("aware", cutoff - 1, 0 - TwoHours)),
          Entry(2, Published("naive", cutoff - 1, 0)),
          \* dated after the clock reading
          Entry(2, Published("naive", t + 1, 0)) }

\* n recent entries with links of their own, oldest first
Pad(n, t) == [k \in 1..n |-> Entry(100 + k, Published("naive", t - one_week + k, 0))]

\* how many such entries open the first feed
PadSizes == {0, EntryCap - 1, EntryCap}

\* one recent entry with a link of its own, for feed f
Extra(f, t) == Entry(200 + f, Published("naive", t - f, 0))

\* the first feed: the pad, then first; the second feed: second; each of the
\* next extras feeds: one entry of its own; the others are empty
FeedsOf(pad, first, second, extras, t) ==
    [f \in 1..NumFeeds |->
        IF f = 1 THEN Pad(pad, t) \o first
        ELSE IF f = 2 THEN second
        ELSE IF f - 2 <= extras THEN <<Extra(f, t)>>
        ELSE <<>>]

----------------------------------------------------------------------------
(* The outreach ledger: table outreach and the statements run on it. *)

\* SQL NULL
NULL == 0 - 1

\* InsertUsed that writes used = 0
InsertUsedZero(tbl, user, title, t) ==
    Append(tbl, [id |-> Len(tbl) + 1, user |-> user, title |-> title,
                 ts |-> t, used |-> 0, success |-> NULL])

\* InsertUsed that adds no row when the (user, title) already has one
InsertUsedOnce(tbl, user, title, t) ==
    IF \E k \in 1..Len(tbl) : tbl[k].user = user /\ tbl[k].title = title THEN tbl
    ELSE Append(tbl, [id |-> Len(tbl) + 1, user |-> user, title |-> title,
                      ts |-> t, used |-> 1, success |-> NULL])

\* INSERT INTO outreach(user,title,used) VALUES (?,?,1)  (lines 181-185):
\* id is the next rowid, ts defaults to CURRENT_TIMESTAMP, success stays NULL
InsertUsed(tbl, user, title, t) ==
    Append(tbl, [id |-> Len(tbl) + 1, user |-> user, title |-> title,
                 ts |-> t, used |-> 1, success |-> NULL])

\* WHERE user=? AND title=?
Matching(tbl, user, title) ==
    {k \in 1..Len(tbl) : tbl[k].user = user /\ tbl[k].title = title}

\* ORDER BY ts DESC LIMIT 1: a row with the greatest ts; SQL leaves the order
\* of rows with equal ts open, so each of them may be the one
LatestMatching(tbl, user, title) ==
    {k \in Matching(tbl, user, title) :
        \A j \in Matching(tbl, user, title) : tbl[j].ts <= tbl[k].ts}

\* UpdateOutcome with the title dropped from the WHERE clause
UpdateOutcomeAnyTitle(tbl, user, title, value) ==
    LET mine == {k \in 1..Len(tbl) : tbl[k].user = user}
        latest == {k \in mine : \A j \in mine : tbl[j].ts <= tbl[k].ts}
    IN  IF latest = {} THEN {tbl}
        ELSE {[tbl EXCEPT ![k].success = value] : k \in latest}

\* UpdateOutcome with the user dropped from the WHERE clause
UpdateOutcomeAnyUser(tbl, user, title, value) ==
    LET told == {k \in 1..Len(tbl) : tbl[k].title = title}
        latest == {k \in told : \A j \in told : tbl[j].ts <= tbl[k].ts}
    IN  IF latest = {} THEN {tbl}
        ELSE {[tbl EXCEPT ![k].success = value] : k \in latest}

\* UpdateOutcome that leaves a success already set as it is
UpdateOutcomeLocked(tbl, user, title, value) ==
    IF LatestMatching(tbl, user, title) = {} THEN {tbl}
    ELSE {IF tbl[k].success = NULL THEN [tbl EXCEPT ![k].success = value] ELSE tbl :
             k \in LatestMatching(tbl, user, title)}

\* UPDATE outreach SET success=? WHERE user=? AND title=? ORDER BY ts DESC LIMIT 1
\* (lines 188-192, 195-199): the tables the statement may leave
UpdateOutcome(tbl, user, title, value) ==
    IF LatestMatching(tbl, user, title) = {} THEN {tbl}
    ELSE {[tbl EXCEPT ![k].success = value] : k \in LatestMatching(tbl, user, title)}

\* f"{x:.0%}" of succ/total: the percentage rounded to an integer, ties to even
Percent(succ, total) ==
    LET q == (100 * succ) \div total
        r == (100 * succ) % total
    IN  IF 2 * r < total THEN q
        ELSE IF 2 * r > total THEN q + 1
        ELSE IF q % 2 = 0 THEN q ELSE q + 1

\* what a run has in the sidebar before line 60
NoStatistics ==
    [computed |-> FALSE, displayed |-> FALSE, rows |-> 0, notUsed |-> 0, used |-> 0,
     succ |-> 0, na |-> FALSE, pct |-> 0]

\* lines 60-73 for one user: the GROUP BY used counts, and, unless the frame
\* is empty, the bar chart of the counts of used = 0 and 1 and the rate line
\* "succ/total (pct%)" or "N/A"
SidebarStats(tbl, user) ==
    LET mine == {k \in 1..Len(tbl) : tbl[k].user = user}
        count(u) == Cardinality({k \in mine : tbl[k].used = u})
        succ == Cardinality({k \in mine : tbl[k].success = 1})
        total == count(1)
    IN  IF {tbl[k].used : k \in mine} = {}
        THEN [NoStatistics EXCEPT !.computed = TRUE]
        ELSE [computed |-> TRUE, displayed |-> TRUE, rows |-> Cardinality(mine),
              notUsed |-> count(0), used |-> total, succ |-> succ,
              na |-> ~(total > 0),
              pct |-> IF total > 0 THEN Percent(succ, total) ELSE 0]

----------------------------------------------------------------------------
(* The script run of a session. *)

Sessions == {"s1", "s2"}

\* st.secrets["credentials"]["usernames"] (line 15)
users ==
    [shah |-> [name |-> "Shah", password |-> "pw1"],
     guest |-> [name |-> "Guest", password |-> "pw2"]]

\* what may be typed into the login form
TypedNames == {"shah", "guest", "mallory"}
TypedPasswords == {"pw1", "pw2"}

\* the clock when the model starts
T0 == 3 * one_week

\* a button: its kind and, for the buttons of a row, the row's index
Button(w, k) == [w |-> w, i |-> k]
Click(w, k, uname, pwd) == [w |-> w, i |-> k, uname |-> uname, pwd |-> pwd]
NoClick == Click("none", 0, "", "")

\* temperatures, in tenths: openai_chat's default 0.2 (line 124) and the 0.7
\* of generate_email (line 145)
DefaultTemp == 2
EmailTemp == 7

\* one call of openai_chat: the prompt's function, its arguments, the
\* temperature, the row it is for, whether it returned, and the reply where
\* the script passes it on ("" otherwise)
Call(fn, title, persona, temp, k, ok) ==
    [fn |-> fn, title |-> title, persona |-> persona, temp |-> temp, i |-> k, ok |-> ok,
     ret |-> ""]

\* EnrichCalls with the email prompt given a persona of its own
EnrichCallsOwnPersona(title, p, k) ==
    << [Call("persona", title, "", DefaultTemp, k, TRUE) EXCEPT !.ret = p],
       Call("impact", title, "", DefaultTemp, k, TRUE),
       Call("subject", title, "", DefaultTemp, k, TRUE),
       Call("email", title, "CFO", EmailTemp, k, TRUE) >>

\* lines 170-173 for one title, the persona call returning p
EnrichCalls(title, p, k) ==
    << [Call("persona", title, "", DefaultTemp, k, TRUE) EXCEPT !.ret = p],
       Call("impact", title, "", DefaultTemp, k, TRUE),
       Call("subject", title, "", DefaultTemp, k, TRUE),
       Call("email", title, p, EmailTemp, k, TRUE) >>

\* FailedCalls with the raising call tried a second time
FailedCallsRetried(title, p, k, n) ==
    [j \in 1..(n + 1) |->
        IF j >= n THEN [EnrichCalls(title, p, k)[n] EXCEPT !.ok = FALSE, !.ret = ""]
        ELSE EnrichCalls(title, p, k)[j]]

\* the calls made when the n-th of the four raises
FailedCalls(title, p, k, n) ==
    [j \in 1..n |-> IF j = n THEN [EnrichCalls(title, p, k)[j] EXCEPT !.ok = FALSE, !.ret = ""]
                    ELSE EnrichCalls(title, p, k)[j]]

Personas == {"CFO", "COO"}

\* a reply of one row, an item: title X
OneItemReply == <<"X", "|", "l", "|", "d">>

\* a reply of two rows, each an item: titles X and Y
TwoItemReply ==
    <<"X", "|", "l", "|", "d", "|", "r", NL, "Y", " ", "|", "l", "|", "d", " ">>

\* replies of the completion service to the relevance filter's prompt
FilterReplies ==
    { <<>>,
      <<" ">>,
      OneItemReply,
      TwoItemReply,
      <<"-", NL, "X", "|", "l">> }

\* feed contents met by the sessions' fetches: nothing, or one recent entry
AppFeeds ==
    { FeedsOf(0, <<>>, <<>>, 0, T0),
      FeedsOf(0, <<Entry(1, Published("naive", T0, 0))>>, <<>>, 0, T0),
      FeedsOf(0, <<>>, <<Entry(2, Published("aware", T0, TwoHours))>>, 0, T0) }

\* FetchAnalyzeState without the else branch of lines 152-153
FetchAnalyzeStateNoElse(ss, news, reply) ==
    [ss EXCEPT !.raw_news = news,
               !.filtered_news = IF news # <<>> THEN reply ELSE @]

\* lines 149-153 on the session's state: news the fetch's result, reply the
\* stripped reply of filter_news_with_gpt (not called when news is empty)
FetchAnalyzeState(ss, news, reply) ==
    [ss EXCEPT !.raw_news = news,
               !.filtered_news = IF news # <<>> THEN reply ELSE <<>>]

\* the row the display loop of session s is at
RowAt(s) == Rows(session_state[s].filtered_news)[loop_i[s] + 1]
TitleAt(s) == ParseRow(RowAt(s)).item.title

NoOp == [op |-> "none", s |-> "", user |-> "", title |-> <<>>, matched |-> 0, was |-> {}]

----------------------------------------------------------------------------
(* Idle values: the variables of the parts a specification does not drive. *)

ParseIdle ==
    /\ parseInput = <<>>
    /\ parsePos = 0
    /\ parseItems = <<>>
    /\ parseStatus = "done"

FetchIdle ==
    /\ feeds = [f \in 1..NumFeeds |-> <<>>]
    /\ now = 0
    /\ fetchStatus = "done"
    /\ fetchOut = FetchStart

\* lines 18-23 for every session, an empty table, and each session's first run
\* done: not authenticated, it drew the login form and stopped (lines 27-37)
AppStart ==
    /\ session_state = [s \in Sessions |->
            [authenticated |-> FALSE, username |-> "", raw_news |-> <<>>,
             filtered_news |-> <<>>]]
    /\ outreach = <<>>
    /\ clock = T0
    /\ pc = [s \in Sessions |-> "idle"]
    /\ clicked = [s \in Sessions |-> NoClick]
    /\ loop_i = [s \in Sessions |-> 0]
    /\ calls = [s \in Sessions |-> <<>>]
    /\ sidebar = [s \in Sessions |-> NoStatistics]
    /\ rendered = [s \in Sessions |-> {Button("login", 0)}]
    /\ error = [s \in Sessions |-> "none"]
    /\ wrote = [s \in Sessions |-> "none"]
    /\ lastOp = NoOp
    /\ lastCycle = [s \in Sessions |-> "none"]
    /\ filteredFrom = [s \in Sessions |-> <<>>]

\* every session has its page open
AppStartAll ==
    /\ AppStart
    /\ opened = Sessions
    /\ runsLeft = MaxRuns

\* one session has its page open
AppStartSolo ==
    /\ AppStart
    /\ opened = {"s1"}
    /\ runsLeft = MaxSoloRuns

\* the user each session is logged in as when the sessions begin logged in
LedgerUser(s) == IF s = "s1" THEN "shah" ELSE "guest"

\* the news list of those sessions: one recent entry
LedgerNews == FetchRecentNews(FeedsOf(0, <<Entry(1, Published("naive", T0, 0))>>, <<>>, 0, T0), T0)

\* the buttons of a page that displays the rows 0..n-1 as items
PageButtons(n) ==
    {Button("logout", 0), Button("fetch", 0)}
        \cup {Button(w, k) : w \in {"used", "succ", "fail"}, k \in 0..(n - 1)}

\* the reply their cycles stored: two items for shah, one item for guest
LedgerReply(s) == Strip(IF s = "s1" THEN TwoItemReply ELSE OneItemReply)

\* a later state of AppStartAll: each session has logged in (lines 31-34), run a
\* Fetch & Analyze cycle that stored its reply (lines 148-151), and its run has
\* drawn the items (lines 162-180); no button of a row was clicked yet, so the
\* table is empty
AppStartLedger ==
    /\ session_state = [s \in Sessions |->
            [authenticated |-> TRUE, username |-> LedgerUser(s), raw_news |-> LedgerNews,
             filtered_news |-> LedgerReply(s)]]
    /\ outreach = <<>>
    /\ clock = T0
    /\ pc = [s \in Sessions |-> "idle"]
    /\ clicked = [s \in Sessions |-> NoClick]
    /\ loop_i = [s \in Sessions |-> 0]
    /\ calls = [s \in Sessions |-> <<>>]
    /\ sidebar = [s \in Sessions |-> NoStatistics]
    /\ rendered = [s \in Sessions |-> PageButtons(Len(Rows(LedgerReply(s))))]
    /\ error = [s \in Sessions |-> "none"]
    /\ wrote = [s \in Sessions |-> "none"]
    /\ lastOp = NoOp
    /\ lastCycle = [s \in Sessions |-> "filtered"]
    /\ filteredFrom = [s \in Sessions |-> LedgerNews]
    /\ opened = Sessions
    /\ runsLeft = MaxLedgerRuns

----------------------------------------------------------------------------
(* SpecParse: the display loop's parsing applied to every short reply. *)

\* all texts of at most n characters
RECURSIVE Texts(_)
Texts(n) ==
    IF n = 0 THEN {<<>>}
    ELSE LET shorter == Texts(n - 1)
         IN  shorter \cup {Append(t, c) : t \in {u \in shorter : Len(u) = n - 1}, c \in Alphabet}

ParseInit ==
    \* openai_chat returns the reply stripped (line 130)
    /\ parseInput \in {t \in Texts(MaxLen) : Strip(t) = t}
    /\ parsePos = 0
    /\ parseItems = <<>>
    /\ parseStatus = "run"
    /\ FetchIdle
    /\ AppStartAll

\* the row the loop is at
ParseCurrent == ParseRow(Rows(parseInput)[parsePos + 1])

ParseAtRow == parseStatus = "run" /\ parsePos < Len(Rows(parseInput))

\* line 162: an empty filtered_news is falsy and the loop is not entered;
\* otherwise the loop ends after the last row
ParseEnd ==
    /\ parseStatus = "run"
    /\ parseInput = <<>> \/ parsePos >= Len(Rows(parseInput))
    /\ parseStatus' = "done"
    /\ UNCHANGED <<parseInput, parsePos, parseItems>>
    /\ UNCHANGED <<fetchVars, appVars>>

\* lines 164-165
ParseSkip ==
    /\ parseInput # <<>>
    /\ ParseAtRow
    /\ ParseCurrent.kind = "skip"
    /\ parsePos' = parsePos + 1
    /\ UNCHANGED <<parseInput, parseItems, parseStatus>>
    /\ UNCHANGED <<fetchVars, appVars>>

\* line 166, the unpacking fails
ParseRaise ==
    /\ parseInput # <<>>
    /\ ParseAtRow
    /\ ParseCurrent.kind = "raise"
    /\ parseStatus' = "raised"
    /\ UNCHANGED <<parseInput, parsePos, parseItems>>
    /\ UNCHANGED <<fetchVars, appVars>>

\* line 166, the unpacking succeeds
ParseItem ==
    /\ parseInput # <<>>
    /\ ParseAtRow
    /\ ParseCurrent.kind = "item"
    /\ parseItems' = Append(parseItems, ParseCurrent.item)
    /\ parsePos' = parsePos + 1
    /\ UNCHANGED <<parseInput, parseStatus>>
    /\ UNCHANGED <<fetchVars, appVars>>

ParseNext == ParseEnd \/ ParseSkip \/ ParseRaise \/ ParseItem

SpecParse == ParseInit /\ [][ParseNext]_vars

----------------------------------------------------------------------------
(* SpecFetch: fetch_recent_news applied to bounded feed contents. *)

\* clock readings at the start of a fetch cycle: the feeds' entries are dated
\* relative to the reading, so one reading stands for all
NowChoices == {3 * one_week}

FetchInit ==
    /\ now \in NowChoices
    /\ \E pad \in PadSizes, extras \in {0, NumFeeds - 2}, n \in 0..MaxEntries :
         \E m \in 0..n :
           \E first \in [1..m -> Samples(now)], second \in [1..(n - m) -> Samples(now)] :
              feeds = FeedsOf(pad, first, second, extras, now)
    /\ fetchStatus = "input"
    /\ fetchOut = FetchStart
    /\ ParseIdle
    /\ AppStartAll

\* st.session_state.raw_news = fetch_recent_news(...) as one step
FetchRun ==
    /\ fetchStatus = "input"
    /\ fetchOut' = FetchTrace(feeds, now)
    /\ fetchStatus' = "done"
    /\ UNCHANGED <<feeds, now>>
    /\ UNCHANGED <<parseVars, appVars>>

FetchNext == FetchRun

SpecFetch == FetchInit /\ [][FetchNext]_vars

----------------------------------------------------------------------------
(* Spec: script runs of the sessions, interleaved at their statements on the *)
(* table.                                                                   *)

Init == AppStartAll /\ ParseIdle /\ FetchIdle

InitSolo == AppStartSolo /\ ParseIdle /\ FetchIdle

InitLedger == AppStartLedger /\ ParseIdle /\ FetchIdle

Others == <<opened, parseVars, fetchVars>>

\* the click of this run is button w of the row at hand
Clicked(s, w) == pc[s] = "buttons" /\ clicked[s] = Click(w, loop_i[s], "", "")

\* a Success or Fail handler of session s is about to run its UPDATE
AtOutcome(s) == Clicked(s, "succ") \/ Clicked(s, "fail")

\* a handler of session s is about to run its statement on the table
AtWrite(s) == Clicked(s, "used") \/ AtOutcome(s)

\* session s is between runs or about to run a statement on the table
AtTable(s) == pc[s] \in {"idle", "stats"} \/ AtWrite(s)

\* Sessions share the table and the clock only: the steps of a run that touch
\* neither commute with every step of the other sessions, so a session takes
\* them while the others wait at the table.  Only a session whose page is open
\* takes steps.
Turn(s) == s \in opened /\ \A t \in Sessions \ {s} : AtTable(t)

\* session s takes the step at label
Step(s, label) == pc[s] = label /\ Turn(s)

\* a run starts with the clicked widget; the page is drawn anew
StartRun(s, click) ==
    /\ Step(s, "idle")
    /\ runsLeft > 0
    /\ runsLeft' = runsLeft - 1
    /\ clicked' = [clicked EXCEPT ![s] = click]
    /\ pc' = [pc EXCEPT ![s] = "sidebar"]
    /\ rendered' = [rendered EXCEPT ![s] = {}]
    /\ UNCHANGED <<session_state, outreach, clock, loop_i, calls, sidebar, error, wrote,
                   lastOp, lastCycle, filteredFrom, Others>>

\* a run ends: the script's locals are gone, the page stays
EndRun(s) ==
    /\ pc' = [pc EXCEPT ![s] = "idle"]
    /\ clicked' = [clicked EXCEPT ![s] = NoClick]
    /\ loop_i' = [loop_i EXCEPT ![s] = 0]
    /\ calls' = [calls EXCEPT ![s] = <<>>]
    /\ sidebar' = [sidebar EXCEPT ![s] = NoStatistics]
    /\ error' = [error EXCEPT ![s] = "none"]
    /\ wrote' = [wrote EXCEPT ![s] = "none"]

\* runs under way whose click is a Mark as Used
PendingInserts ==
    Cardinality({s \in Sessions : pc[s] # "idle" /\ clicked[s].w = "used"})

\* the user submits the login form (lines 29-31)
ClickLogin(s) ==
    /\ Button("login", 0) \in rendered[s]
    /\ \E uname \in TypedNames, pwd \in TypedPasswords :
          StartRun(s, Click("login", 0, uname, pwd))

\* the user clicks one of the other buttons on the page (a Mark as Used only
\* while the table has room for its row: the table is bounded by MaxRows)
ClickButton(s) ==
    \E b \in rendered[s] :
        /\ b.w # "login"
        /\ b.w = "used" => Len(outreach) + PendingInserts < MaxRows
        /\ StartRun(s, Click(b.w, b.i, "", ""))

\* a rerun without a button click (the sector selectbox, an edited text field)
Refresh(s) == StartRun(s, NoClick)

\* the rest of the run's state is left alone
RunFrame == UNCHANGED <<clock, clicked, runsLeft, Others>>

\* lines 27-37: not authenticated; the login is checked, then st.stop()
SidebarLogin(s) ==
    /\ Step(s, "sidebar")
    /\ ~session_state[s].authenticated
    /\ session_state' =
          IF /\ clicked[s].w = "login"
             /\ clicked[s].uname \in DOMAIN users
             /\ clicked[s].pwd = users[clicked[s].uname].password
          THEN [session_state EXCEPT ![s].authenticated = TRUE,
                                     ![s].username = clicked[s].uname]
          ELSE session_state
    /\ rendered' = [rendered EXCEPT ![s] = {Button("login", 0)}]
    /\ EndRun(s)
    /\ UNCHANGED <<outreach, clock, lastOp, lastCycle, filteredFrom, runsLeft, Others>>

\* lines 40-42: Logout clicked; st.experimental_rerun() starts the script over
SidebarLogout(s) ==
    /\ Step(s, "sidebar")
    /\ session_state[s].authenticated
    /\ clicked[s].w = "logout"
    /\ session_state' = [session_state EXCEPT ![s].authenticated = FALSE]
    /\ clicked' = [clicked EXCEPT ![s] = NoClick]
    /\ UNCHANGED <<outreach, clock, pc, loop_i, calls, sidebar, error, wrote, rendered,
                   lastOp, lastCycle, filteredFrom, runsLeft, Others>>

\* lines 38-40: authenticated, Logout not clicked
SidebarLoggedIn(s) ==
    /\ Step(s, "sidebar")
    /\ session_state[s].authenticated
    /\ clicked[s].w # "logout"
    /\ rendered' = [rendered EXCEPT ![s] = {Button("logout", 0)}]
    /\ pc' = [pc EXCEPT ![s] = "stats"]
    /\ UNCHANGED <<session_state, outreach, loop_i, calls, sidebar, error, wrote, lastOp,
                   lastCycle, filteredFrom>>
    /\ RunFrame

\* lines 45-73: the statistics of the session's user, read from the table
SidebarStatistics(s) ==
    /\ Step(s, "stats")
    /\ sidebar' = [sidebar EXCEPT ![s] = SidebarStats(outreach, session_state[s].username)]
    /\ pc' = [pc EXCEPT ![s] = "fetch"]
    /\ UNCHANGED <<session_state, outreach, loop_i, calls, rendered, error, wrote, lastOp,
                   lastCycle, filteredFrom>>
    /\ RunFrame

\* line 148: the Fetch & Analyze button is drawn and was not clicked
FetchNotClicked(s) ==
    /\ Step(s, "fetch")
    /\ clicked[s].w # "fetch"
    /\ rendered' = [rendered EXCEPT ![s] = @ \cup {Button("fetch", 0)}]
    /\ pc' = [pc EXCEPT ![s] = "row"]
    /\ UNCHANGED <<session_state, outreach, loop_i, calls, sidebar, error, wrote, lastOp,
                   lastCycle, filteredFrom>>
    /\ RunFrame

\* lines 148-153, the fetch returns no entry: the filter is not called
FetchAnalyzeEmpty(s) ==
    /\ Step(s, "fetch")
    /\ clicked[s].w = "fetch"
    /\ \E fs \in AppFeeds :
          /\ FetchRecentNews(fs, clock) = <<>>
          /\ session_state' =
                [session_state EXCEPT ![s] = FetchAnalyzeState(@, <<>>, <<>>)]
    /\ lastCycle' = [lastCycle EXCEPT ![s] = "empty_fetch"]
    /\ filteredFrom' = [filteredFrom EXCEPT ![s] = <<>>]
    /\ rendered' = [rendered EXCEPT ![s] = @ \cup {Button("fetch", 0)}]
    /\ pc' = [pc EXCEPT ![s] = "row"]
    /\ UNCHANGED <<outreach, loop_i, calls, sidebar, error, wrote, lastOp>>
    /\ RunFrame

\* lines 148-151, the fetch returns entries and the filter call returns
FetchAnalyzeFiltered(s) ==
    /\ Step(s, "fetch")
    /\ clicked[s].w = "fetch"
    /\ \E fs \in AppFeeds, reply \in FilterReplies :
          /\ FetchRecentNews(fs, clock) # <<>>
          /\ session_state' =
                [session_state EXCEPT
                    ![s] = FetchAnalyzeState(@, FetchRecentNews(fs, clock), Strip(reply))]
          /\ lastCycle' = [lastCycle EXCEPT
                    ![s] = IF Strip(reply) = <<>> THEN "empty_filter" ELSE "filtered"]
          /\ filteredFrom' = [filteredFrom EXCEPT ![s] = FetchRecentNews(fs, clock)]
    /\ calls' = [calls EXCEPT ![s] = Append(@, Call("filter", <<>>, "", DefaultTemp, 0, TRUE))]
    /\ rendered' = [rendered EXCEPT ![s] = @ \cup {Button("fetch", 0)}]
    /\ pc' = [pc EXCEPT ![s] = "row"]
    /\ UNCHANGED <<outreach, loop_i, sidebar, error, wrote, lastOp>>
    /\ RunFrame

\* lines 148-151, the filter call raises: line 149 has assigned raw_news, the
\* assignment of line 151 never happens and the run ends with the exception
FetchAnalyzeFails(s) ==
    /\ Step(s, "fetch")
    /\ clicked[s].w = "fetch"
    /\ \E fs \in AppFeeds :
          /\ FetchRecentNews(fs, clock) # <<>>
          /\ session_state' =
                [session_state EXCEPT ![s].raw_news = FetchRecentNews(fs, clock)]
    /\ lastCycle' = [lastCycle EXCEPT ![s] = "failed"]
    /\ UNCHANGED <<wrote, filteredFrom>>
    /\ calls' = [calls EXCEPT ![s] = Append(@, Call("filter", <<>>, "", DefaultTemp, 0, FALSE))]
    /\ rendered' = [rendered EXCEPT ![s] = @ \cup {Button("fetch", 0)}]
    /\ error' = [error EXCEPT ![s] = "CompletionError"]
    /\ pc' = [pc EXCEPT ![s] = "raised"]
    /\ UNCHANGED <<outreach, loop_i, sidebar, lastOp>>
    /\ RunFrame

\* line 162: if st.session_state.filtered_news
DisplayGuard(text) == text # <<>>

\* the display loop has a row to handle
AtRow(s) ==
    /\ Step(s, "row")
    /\ DisplayGuard(session_state[s].filtered_news)
    /\ loop_i[s] < Len(Rows(session_state[s].filtered_news))

LoopFrame == UNCHANGED <<session_state, outreach, sidebar, lastOp, lastCycle, filteredFrom>>

\* lines 162-163: nothing to display, or the loop is through; the run ends
DisplayEnd(s) ==
    /\ Step(s, "row")
    /\ ~AtRow(s)
    /\ EndRun(s)
    /\ UNCHANGED <<session_state, outreach, clock, rendered, lastOp, lastCycle,
                   filteredFrom, runsLeft, Others>>

\* an exception left the script: the run ends
ScriptException(s) ==
    /\ Step(s, "raised")
    /\ EndRun(s)
    /\ UNCHANGED <<session_state, outreach, clock, rendered, lastOp, lastCycle,
                   filteredFrom, runsLeft, Others>>

\* lines 164-165: a row without a pipe
RowSkip(s) ==
    /\ AtRow(s)
    /\ ParseRow(RowAt(s)).kind = "skip"
    /\ loop_i' = [loop_i EXCEPT ![s] = @ + 1]
    /\ UNCHANGED <<pc, calls, rendered, error, wrote>>
    /\ LoopFrame
    /\ RunFrame

\* line 166: the unpacking raises ValueError and the run ends
RowRaise(s) ==
    /\ AtRow(s)
    /\ ParseRow(RowAt(s)).kind = "raise"
    /\ error' = [error EXCEPT ![s] = "ValueError"]
    /\ UNCHANGED wrote
    /\ pc' = [pc EXCEPT ![s] = "raised"]
    /\ UNCHANGED <<loop_i, calls, rendered>>
    /\ LoopFrame
    /\ RunFrame

\* lines 166-180: the four enrichment calls return and the row's buttons are drawn
RowEnrich(s) ==
    /\ AtRow(s)
    /\ ParseRow(RowAt(s)).kind = "item"
    /\ \E p \in Personas :
          calls' = [calls EXCEPT ![s] = @ \o EnrichCalls(TitleAt(s), p, loop_i[s])]
    /\ rendered' = [rendered EXCEPT ![s] = @ \cup {Button("used", loop_i[s]),
                                                   Button("succ", loop_i[s]),
                                                   Button("fail", loop_i[s])}]
    /\ pc' = [pc EXCEPT ![s] = "buttons"]
    /\ UNCHANGED <<loop_i, error, wrote>>
    /\ LoopFrame
    /\ RunFrame

\* lines 170-173: the n-th enrichment call raises and the run ends
RowEnrichFails(s) ==
    /\ AtRow(s)
    /\ ParseRow(RowAt(s)).kind = "item"
    /\ \E n \in 1..4, p \in Personas :
          calls' = [calls EXCEPT ![s] = @ \o FailedCalls(TitleAt(s), p, loop_i[s], n)]
    /\ error' = [error EXCEPT ![s] = "CompletionError"]
    /\ pc' = [pc EXCEPT ![s] = "raised"]
    /\ UNCHANGED <<loop_i, rendered, wrote>>
    /\ LoopFrame
    /\ RunFrame

ButtonFrame(s) ==
    /\ pc' = [pc EXCEPT ![s] = "row"]
    /\ loop_i' = [loop_i EXCEPT ![s] = @ + 1]
    /\ UNCHANGED <<session_state, calls, sidebar, rendered, error, lastCycle,
                   filteredFrom>>
    /\ RunFrame

\* lines 180-200: none of the row's three buttons was clicked
NoRowButton(s) ==
    /\ Step(s, "buttons")
    /\ \A w \in {"used", "succ", "fail"} : ~Clicked(s, w)
    /\ UNCHANGED <<outreach, lastOp, wrote>>
    /\ ButtonFrame(s)

\* the statement a handler runs, for the history: matched counts the rows of
\* its (user, title), was holds the success values of the rows an UPDATE may pick
Op(op, s, tbl) ==
    [op |-> op, s |-> s, user |-> session_state[s].username, title |-> TitleAt(s),
     matched |-> Cardinality(Matching(tbl, session_state[s].username, TitleAt(s))),
     was |-> IF op = "used" THEN {}
             ELSE {tbl[k].success :
                      k \in LatestMatching(tbl, session_state[s].username, TitleAt(s))}]

\* lines 180-186: Mark as Used
MarkAsUsed(s) ==
    /\ Turn(s)
    /\ Clicked(s, "used")
    /\ outreach' = InsertUsed(outreach, session_state[s].username, TitleAt(s), clock)
    /\ lastOp' = Op("used", s, outreach)
    /\ wrote' = [wrote EXCEPT ![s] = "used"]
    /\ ButtonFrame(s)

\* lines 187-193: Success
MarkSuccess(s) ==
    /\ Turn(s)
    /\ Clicked(s, "succ")
    /\ outreach' \in UpdateOutcome(outreach, session_state[s].username, TitleAt(s), 1)
    /\ lastOp' = Op("succ", s, outreach)
    /\ wrote' = [wrote EXCEPT ![s] = "succ"]
    /\ ButtonFrame(s)

\* lines 194-200: Fail
MarkFail(s) ==
    /\ Turn(s)
    /\ Clicked(s, "fail")
    /\ outreach' \in UpdateOutcome(outreach, session_state[s].username, TitleAt(s), 0)
    /\ lastOp' = Op("fail", s, outreach)
    /\ wrote' = [wrote EXCEPT ![s] = "fail"]
    /\ ButtonFrame(s)

\* a second passes.  The script reads the clock for the ts of a new row, which
\* is compared with the ts of other rows only (lines 189, 196), and for the
\* cutoff of line 102, for which the entries of AppFeeds are recent at every
\* reading: the seconds that pass before the table has a row change nothing a
\* run can tell, so the clock is followed from the first row on.
Tick ==
    /\ \A s \in Sessions : AtTable(s)
    /\ outreach # <<>>
    /\ clock < T0 + MaxClock
    /\ clock' = clock + 1
    /\ UNCHANGED <<session_state, outreach, pc, clicked, loop_i, calls, sidebar,
                   error, wrote, rendered, lastOp, lastCycle, filteredFrom, runsLeft, Others>>

Next ==
    \/ Tick
    \/ \E s \in Sessions :
          \/ ClickLogin(s)
          \/ ClickButton(s)
          \/ Refresh(s)
          \/ SidebarLogin(s)
          \/ SidebarLogout(s)
          \/ SidebarLoggedIn(s)
          \/ SidebarStatistics(s)
          \/ FetchNotClicked(s)
          \/ FetchAnalyzeEmpty(s)
          \/ FetchAnalyzeFiltered(s)
          \/ FetchAnalyzeFails(s)
          \/ DisplayEnd(s)
          \/ ScriptException(s)
          \/ RowSkip(s)
          \/ RowRaise(s)
          \/ RowEnrich(s)
          \/ RowEnrichFails(s)
          \/ NoRowButton(s)
          \/ MarkAsUsed(s)
          \/ MarkSuccess(s)
          \/ MarkFail(s)

Spec == Init /\ [][Next]_vars

SpecSolo == InitSolo /\ [][Next]_vars

SpecLedger == InitLedger /\ [][Next]_vars

----------------------------------------------------------------------------
(* Claims about the outreach ledger and its statistics. *)

\* C2: after two recordUsed(user, X) and one recordOutcome(user, X, true) only
\* the second inserted row has success set and the first stays unset, whatever
\* the timing of the two inserts.
C2_SecondRowUpdated ==
    [][\A s \in Sessions :
          LET rows == Matching(outreach, session_state[s].username, TitleAt(s))
          IN  (/\ Clicked(s, "succ")
               /\ pc'[s] # pc[s]
               /\ Cardinality(rows) = 2
               /\ \A k \in rows : outreach[k].success = NULL)
              => \A k \in rows :
                    outreach'[k].success = IF \E j \in rows : j > k THEN NULL ELSE 1]_vars

\* C4: in a run where a Mark as Used, Success or Fail handler writes to the
\* table, the statistics that run displays are those of the table with the write.
C4_StatsIncludeWrite ==
    [][\A s \in Sessions :
          AtWrite(s) /\ pc'[s] # pc[s] =>
             sidebar'[s] = SidebarStats(outreach', session_state[s].username)]_vars

\* C5: recordOutcome with no row for (user, title) affects no row, leaves the
\* table as it is and raises nothing: the run goes on to the next row.
C5_OutcomeWithoutRowIsNoOp ==
    [][\A s \in Sessions :
          (/\ AtOutcome(s)
           /\ Matching(outreach, session_state[s].username, TitleAt(s)) = {}
           /\ pc'[s] # pc[s])
          => /\ outreach' = outreach
             /\ error'[s] = "none"
             /\ pc'[s] = "row"]_vars

\* C5 witness: a Success or Fail statement has just run for a (user, title)
\* without a row while the table held rows, and its run goes on.
C5_Witness ==
    /\ lastOp.op \in {"succ", "fail"}
    /\ lastOp.matched = 0
    /\ outreach # <<>>
    /\ pc[lastOp.s] = "row"
    /\ loop_i[lastOp.s] = clicked[lastOp.s].i + 1
    /\ clicked[lastOp.s].w = lastOp.op
    /\ error[lastOp.s] = "none"

\* C6: with zero rows for the user the statistics are usedCount = 0 and rate
\* "N/A"; with usedCount > 0 the rate is successCount / usedCount.
C6_ZeroRowsNotApplicable ==
    \A s \in Sessions :
        sidebar[s].computed =>
            /\ sidebar[s].rows = 0 =>
                  sidebar[s].displayed /\ sidebar[s].used = 0 /\ sidebar[s].na
            /\ sidebar[s].used > 0 =>
                  ~sidebar[s].na /\ sidebar[s].pct = Percent(sidebar[s].succ, sidebar[s].used)

\* the value a Success or Fail handler of session s sets
OutcomeOf(s) == IF Clicked(s, "succ") THEN 1 ELSE 0

\* C11: success is unset from a row's creation until a recordOutcome targets the
\* row, is never reset to unset, and has no terminal lock: a recordOutcome on a
\* (user, title) with rows leaves its value on a latest row, whatever that row's
\* success was (false after true, true after false).
C11_SuccessOverwritable ==
    [][/\ Len(outreach') >= Len(outreach)
       /\ \A k \in 1..Len(outreach') :
             IF k > Len(outreach) THEN outreach'[k].success = NULL
             ELSE outreach'[k].success # outreach[k].success =>
                     \E s \in Sessions :
                        /\ AtOutcome(s)
                        /\ pc'[s] # pc[s]
                        /\ k \in LatestMatching(outreach, session_state[s].username, TitleAt(s))
                        /\ outreach'[k].success = OutcomeOf(s)
       /\ \A s \in Sessions :
             (/\ AtOutcome(s)
              /\ pc'[s] # pc[s]
              /\ LatestMatching(outreach, session_state[s].username, TitleAt(s)) # {})
             => \E k \in LatestMatching(outreach, session_state[s].username, TitleAt(s)) :
                   /\ outreach'[k].success = OutcomeOf(s)
                   /\ \A j \in 1..Len(outreach) : j # k => outreach'[j] = outreach[j]]_vars

\* C11 witness: a Fail has just run on the only row of its (user, title), whose
\* success an earlier Success had set, and the row now holds failure.
C11_Witness ==
    /\ lastOp.op = "fail"
    /\ lastOp.matched = 1
    /\ lastOp.was = {1}
    /\ pc[lastOp.s] = "row"
    /\ wrote[lastOp.s] = "fail"
    /\ \E k \in 1..Len(outreach) :
          /\ outreach[k].user = lastOp.user
          /\ outreach[k].title = lastOp.title
          /\ outreach[k].success = 0

\* C12: every recordUsed(user, title) adds exactly one row with used = 1 and
\* success unset as the table's last row and leaves the existing rows unchanged,
\* also when the (user, title) already has rows: n calls produce n rows.
C12_UsedAppendsOneRow ==
    [][\A s \in Sessions :
          Clicked(s, "used") /\ pc'[s] # pc[s] =>
             /\ Len(outreach') = Len(outreach) + 1
             /\ \A k \in 1..Len(outreach) : outreach'[k] = outreach[k]
             /\ outreach'[Len(outreach')].user = session_state[s].username
             /\ outreach'[Len(outreach')].title = TitleAt(s)
             /\ outreach'[Len(outreach')].used = 1
             /\ outreach'[Len(outreach')].success = NULL
             /\ Cardinality(Matching(outreach', session_state[s].username, TitleAt(s)))
                   = Cardinality(Matching(outreach, session_state[s].username, TitleAt(s))) + 1]_vars

\* C12 witness: a Mark as Used has just run for a (user, title) that had a row:
\* the table holds two rows of it, both used and without outcome.
C12_Witness ==
    /\ lastOp.op = "used"
    /\ lastOp.matched = 1
    /\ wrote[lastOp.s] = "used"
    /\ Cardinality(Matching(outreach, lastOp.user, lastOp.title)) = 2
    /\ \A k \in Matching(outreach, lastOp.user, lastOp.title) :
          outreach[k].used = 1 /\ outreach[k].success = NULL

C19_EveryRowUsed ==
    /\ \A k \in 1..Len(outreach) : outreach[k].used = 1
    /\ \A u \in DOMAIN users :
          LET stats == SidebarStats(outreach, u)
          IN  /\ stats.notUsed = 0
              /\ stats.succ <= stats.used
              /\ stats.pct <= 100
              /\ stats.rows > 0 => stats.used > 0
              /\ stats.displayed => ~stats.na
    /\ \A s \in Sessions :
          sidebar[s].displayed =>
             /\ ~sidebar[s].na
             /\ sidebar[s].notUsed = 0
             /\ sidebar[s].succ <= sidebar[s].used
             /\ sidebar[s].pct <= 100

\* C19 witness: a run displays the statistics of a user with a successful row.
C19_Witness ==
    \E s \in Sessions :
        /\ sidebar[s].displayed
        /\ sidebar[s].succ = 1
        /\ sidebar[s].used = 1
        /\ sidebar[s].pct = 100

----------------------------------------------------------------------------
(* Claims about the Fetch & Analyze cycle and the enrichment. *)

\* C10: after a cycle whose fetch returned nothing (the filter is then not
\* called) or whose filter reply is empty, no enrichment call is made, in that
\* run and in the later runs, until another cycle.
C10_NoEnrichmentAfterEmptyCycle ==
    \A s \in Sessions :
        lastCycle[s] \in {"empty_fetch", "empty_filter"} =>
            /\ pc[s] # "buttons"
            /\ \A k \in 1..Len(calls[s]) : calls[s][k].fn = "filter"
            /\ lastCycle[s] = "empty_fetch" => calls[s] = <<>>

\* C10 witness: a session whose last cycle got an empty reply for fetched
\* entries is in a later run, at the display of the filtered news.
C10_Witness ==
    \E s \in Sessions :
        /\ lastCycle[s] = "empty_filter"
        /\ session_state[s].raw_news # <<>>
        /\ pc[s] = "row"
        /\ clicked[s] = NoClick

\* C14: between script runs a session's filtered_news is empty or the filter's
\* reply for the session's current raw_news; a failed filter call does not leave
\* the new raw_news paired with the filtered_news of an earlier cycle.
C14_FilteredFromCurrentNews ==
    \A s \in Sessions :
        pc[s] = "idle" =>
            \/ session_state[s].filtered_news = <<>>
            \/ filteredFrom[s] = session_state[s].raw_news

\* the order of lines 170-173
EnrichOrder == <<"persona", "impact", "subject", "email">>

\* the calls cs of a run that follow its Fetch & Analyze handler: a filter call
\* comes first in a run (line 151 is before the display loop)
AfterFilter(cs) == IF cs # <<>> /\ cs[1].fn = "filter" THEN Tail(cs) ELSE cs

Enrichment(s) == AfterFilter(calls[s])

\* the calls cs of a run that displays text are, in order: persona, impact,
\* subject, email for the first row that is an item, then the same four for the
\* next such row, each made after the one before returned, an item's email call
\* with the persona its own persona call returned
InOrder(cs, text) ==
    LET e == AfterFilter(cs)
        rows == Rows(text)
        row == [k \in 1..Len(rows) |-> ParseRow(rows[k])]
    IN  \A j \in 1..Len(e) :
           LET n == ((j - 1) % 4) + 1
               from == IF j <= 4 THEN 0 ELSE e[j - n].i + 1
           IN  /\ e[j].fn = EnrichOrder[n]
               /\ row[e[j].i + 1].kind = "item"
               /\ e[j].title = row[e[j].i + 1].item.title
               /\ j > 1 => e[j - 1].ok
               /\ n > 1 => e[j].i = e[j - 1].i
               /\ n = 1 => /\ from <= e[j].i
                           /\ \A k \in from..(e[j].i - 1) : row[k + 1].kind = "skip"
               /\ n = 4 => e[j].persona = e[j - 3].ret

\* C16: within a run the enrichment calls come as persona, impact, subject,
\* email for the first parsed item, then the same four for the next item, in the
\* order of the rows of filtered_news, and an item's email call gets the persona
\* returned by its own persona call: so it is after every step that makes calls.
C16_EnrichmentInOrder ==
    [][\A s \in Sessions :
          calls'[s] # calls[s] => InOrder(calls'[s], session_state'[s].filtered_news)]_vars

\* C16 witness: a run has made the eight calls of two items, whose persona calls
\* returned different personas.
C16_Witness ==
    \E s \in Sessions :
        /\ Len(Enrichment(s)) = 8
        /\ Enrichment(s)[1].ret # Enrichment(s)[5].ret
        /\ Enrichment(s)[8].ok

\* the parts of C17 about the calls: a failed call is the last call of its run
\* (issued once, none after it) and the run has ended with its exception; no
\* handler writes after it
C17_FailureIsFatal(s) ==
    \A j \in 1..Len(calls[s]) :
        ~calls[s][j].ok =>
            /\ j = Len(calls[s])
            /\ \A k \in 1..(j - 1) : calls[s][k].ok
            /\ pc[s] = "raised"
            /\ error[s] = "CompletionError"
            /\ wrote[s] # "none" => clicked[s].i < calls[s][j].i

\* C17 (as stated): when an enrichment call fails it is issued once, no further
\* call is made in that run, and no ledger write happens in that run.
C17_NoWriteInFailedRun ==
    \A s \in Sessions :
        /\ C17_FailureIsFatal(s)
        /\ (\E j \in 1..Len(calls[s]) : ~calls[s][j].ok) => wrote[s] = "none"

\* C17 (amended): when an enrichment call fails it is issued once, no further
\* call is made in that run, and no ledger write for its item or a later item
\* happens in that run.
C17_NoWriteFromFailedItemOn ==
    \A s \in Sessions : C17_FailureIsFatal(s)

\* C17 witness: the subject call of the second item has failed in a run whose
\* Mark as Used of the first item had inserted its row.
C17_Witness ==
    \E s \in Sessions :
        /\ Len(Enrichment(s)) = 7
        /\ ~Enrichment(s)[7].ok
        /\ pc[s] = "raised"
        /\ wrote[s] = "used"
        /\ lastOp.s = s

\* C18: every persona, impact and relevance-filter call has the low sampling
\* temperature, every subject and email call the higher one.
C18_Temperatures ==
    \A s \in Sessions :
        \A j \in 1..Len(calls[s]) :
            /\ calls[s][j].fn \in {"persona", "impact", "filter"} =>
                  calls[s][j].temp = DefaultTemp
            /\ calls[s][j].fn \in {"subject", "email"} =>
                  calls[s][j].temp = EmailTemp

----------------------------------------------------------------------------
(* Claims about the parsing of the relevance filter's reply. *)

\* C9: parsing the relevance filter's reply never raises; every row without a
\* pipe is skipped and every row with at least one pipe yields an item.
C9_ParseNeverRaises ==
    /\ parseStatus # "raised"
    /\ parseStatus = "done" /\ parseInput # <<>> =>
          Len(parseItems) = Cardinality({k \in 1..Len(Rows(parseInput)) :
                                            Contains(Rows(parseInput)[k], PIPE)})

----------------------------------------------------------------------------
(* Claims about fetch_recent_news. *)

\* the feed positions (feed, index) that hold an entry
Positions == {p \in (1..NumFeeds) \X (1..(EntryCap + MaxEntries)) : p[2] <= Len(feeds[p[1]])}

\* the entry at a feed position
At(p) == feeds[p[1]][p[2]]

\* source order: feed by feed, entry by entry
Before(p, q) == p[1] < q[1] \/ (p[1] = q[1] /\ p[2] < q[2])

Examined == {fetchOut.examined[j] : j \in 1..Len(fetchOut.examined)}

\* the published field parses and is not older than the cutoff
Dated(e) ==
    /\ ~ParseDate(e.published).raised
    /\ ParseDate(e.published).utc >= now - one_week

\* C1: the candidate list never holds more than 20 entries, and once 20 are
\* collected no further entry is examined.
C1_AtMostTwenty ==
    fetchStatus = "done" =>
        /\ Len(fetchOut.entries) <= EntryCap
        /\ Len(fetchOut.entries) = EntryCap =>
              fetchOut.examined[Len(fetchOut.examined)] = fetchOut.origin[EntryCap]

\* the parts of C3 that do not say which of the entries sharing a link survives:
\* no two candidates share a link, each candidate is the formatted feed entry it
\* came from, and the candidates are in source order
C3_UniqueInSourceOrder ==
    /\ Cardinality({fetchOut.entries[k].link : k \in 1..Len(fetchOut.entries)})
          = Len(fetchOut.entries)
    /\ \A k \in 1..(Len(fetchOut.entries) - 1) :
          Before(fetchOut.origin[k], fetchOut.origin[k + 1])
    /\ \A k \in 1..Len(fetchOut.entries) :
          fetchOut.entries[k] = FormatEntry(At(fetchOut.origin[k]))

\* C3 (as stated): no two candidates share a link, among all feed entries with
\* an identical link only the first in source order survives, and the survivors
\* are in source order.
C3_FirstOfAllSurvives ==
    fetchStatus = "done" =>
        /\ C3_UniqueInSourceOrder
        /\ \A k \in 1..Len(fetchOut.entries) :
              \A p \in Positions :
                 At(p).link = fetchOut.entries[k].link => ~Before(p, fetchOut.origin[k])

\* C3 (amended): no two candidates share a link, among the examined feed entries
\* with an identical link whose date parses and is not older than the cutoff
\* only the first in source order survives, and the survivors are in source order.
C3_FirstDatedSurvives ==
    fetchStatus = "done" =>
        /\ C3_UniqueInSourceOrder
        /\ \A k \in 1..Len(fetchOut.entries) : Dated(At(fetchOut.origin[k]))
        /\ \A p \in Examined :
              Dated(At(p)) =>
                 \E k \in 1..Len(fetchOut.entries) :
                    /\ fetchOut.entries[k].link = At(p).link
                    /\ ~Before(p, fetchOut.origin[k])

\* C3 witness: a fetch kept two candidates and dropped a later dated entry that
\* repeats the link of one of them.
C3_Witness ==
    /\ fetchStatus = "done"
    /\ Len(fetchOut.entries) >= 2
    /\ \E p \in Examined :
          /\ Dated(At(p))
          /\ \E k \in 1..Len(fetchOut.entries) :
                fetchOut.entries[k].link = At(p).link /\ Before(fetchOut.origin[k], p)

\* the feed positions the fetch appended
Appended == {fetchOut.origin[k] : k \in 1..Len(fetchOut.origin)}

\* entry q comes after an entry with its link that was dropped for its date, q's
\* own date is acceptable, and no entry with its link was appended before q
FreedLink(p, q) ==
    /\ At(p).link = At(q).link
    /\ Before(p, q)
    /\ ~Dated(At(p))
    /\ Dated(At(q))
    /\ ~\E r \in Appended : Before(r, q) /\ At(r).link = At(q).link

\* the link set holds exactly the links of the appended entries
SeenIsAppendedLinks ==
    fetchOut.seen = {fetchOut.entries[k].link : k \in 1..Len(fetchOut.entries)}

\* C15 (as stated): an entry dropped for its date does not register its link: a
\* later entry of the feeds with the same link and an acceptable date is
\* accepted, and the link set holds exactly the links of the appended entries.
C15_DroppedLinkNotSeen ==
    fetchStatus = "done" =>
        /\ SeenIsAppendedLinks
        /\ \A q \in Positions \ Appended : \A p \in Examined : ~FreedLink(p, q)

\* C15 (amended): the same for the later entries that the fetch examines: none
\* of them is left out.
C15_DroppedLinkNotSeenExamined ==
    fetchStatus = "done" =>
        /\ SeenIsAppendedLinks
        /\ \A q \in Examined \ Appended : \A p \in Examined : ~FreedLink(p, q)

\* C15 witness: a fetch dropped an entry for its date and appended a later
\* entry with the same link.
C15_Witness ==
    /\ fetchStatus = "done"
    /\ \E p, q \in Examined : FreedLink(p, q) /\ q \in Appended

\* C7: every candidate has a publication instant within [now - 7 days, now].
C7_WithinWindow ==
    fetchStatus = "done" =>
        \A k \in 1..Len(fetchOut.entries) :
            LET pub_dt == ParseDate(fetchOut.entries[k].published)
            IN  /\ ~pub_dt.raised
                /\ now - one_week <= pub_dt.utc
                /\ pub_dt.utc <= now

\* C8: an entry whose published field is missing or unparseable never appears
\* among the candidates and never raises: the entry after it in its feed and the
\* first entry of every later feed are still examined.
C8_UnparseableDropped ==
    fetchStatus = "done" =>
        /\ ~fetchOut.raised
        /\ \A k \in 1..Len(fetchOut.entries) :
              ~ParseDate(fetchOut.entries[k].published).raised
        /\ \A j \in 1..Len(fetchOut.examined) :
              LET p == fetchOut.examined[j]
              IN  ParseDate(At(p).published).raised =>
                     /\ <<p[1], p[2]>> \notin {fetchOut.origin[k] : k \in 1..Len(fetchOut.origin)}
                     /\ p[2] < Len(feeds[p[1]]) =>
                           /\ j < Len(fetchOut.examined)
                           /\ fetchOut.examined[j + 1] = <<p[1], p[2] + 1>>
                     /\ \A g \in (p[1] + 1)..NumFeeds :
                           feeds[g] # <<>> => <<g, 1>> \in Examined

\* C8 witness: a fetch met an entry with a missing and one with a malformed
\* date and appended an entry that comes after them.
C8_Witness ==
    /\ fetchStatus = "done"
    /\ \E p, q \in Examined :
          /\ At(p).published.kind = "missing"
          /\ At(q).published.kind = "bad"
          /\ \E k \in 1..Len(fetchOut.origin) :
                Before(p, fetchOut.origin[k]) /\ Before(q, fetchOut.origin[k])

====
